---- MODULE Spec2Model ----
(***************************************************************************)
(* A model of src/lib/Soundbored.svelte: the pad grid, the MIDI decoder,   *)
(* the pad state machine with its decay timers, the audio bank and the     *)
(* custom sound assignment.  Indices are 0-based as in the source; the     *)
(* pad with array index k is pads[k + 1] here.                             *)
(***************************************************************************)
EXTENDS Integers, Sequences, FiniteSets, TLC

(***************************************************************************)
(* Bounds of the model.                                                    *)
(***************************************************************************)
\* input events (gestures, selections, the answer to the MIDI access
\* request, MIDI messages, teardown) delivered in one run; timers and file
\* decodes complete, and devices are plugged and unplugged, freely in between
MaxEvents == 3

(***************************************************************************)
(* Constants of the program.                                               *)
(***************************************************************************)
null == "null"

COLOR_SCHEMES ==
    {"rainbow", "music-theory", "checkerboard", "neon-glow", "mpc", "midnight"}

GRID_SIZES == {"3x3", "4x4", "5x5", "6x6", "7x7", "8x8", "12x2"}

GRID_DIMENSIONS(size) ==
    CASE size = "3x3" -> [rows |-> 3, cols |-> 3]
      [] size = "4x4" -> [rows |-> 4, cols |-> 4]
      [] size = "5x5" -> [rows |-> 5, cols |-> 5]
      [] size = "6x6" -> [rows |-> 6, cols |-> 6]
      [] size = "7x7" -> [rows |-> 7, cols |-> 7]
      [] size = "8x8" -> [rows |-> 8, cols |-> 8]
      [] size = "12x2" -> [rows |-> 2, cols |-> 12]

\* let startNote = 36
startNote == 36

noteNames == <<"C", "C#", "D", "D#", "E", "F", "F#", "G", "G#", "A", "A#", "B">>

synthwaveColors ==
    <<"#0f1e45", "#1a2151", "#4a1e9e", "#7b2fbe",
      "#e92efb", "#ff2a6d", "#1eaedb", "#00fff5">>

(***************************************************************************)
(* Pure helpers.                                                           *)
(***************************************************************************)
\* `${noteName}${octave}` as the pair of its two parts
getNoteName(midiNote) ==
    <<noteNames[(midiNote % 12) + 1], (midiNote \div 12) - 1>>

\* the music-theory branch testing noteValue === 6 for the fourth
musicTheoryColor_FourthAtSix(noteValue) ==
    IF noteValue = 0 THEN <<"hex", "#FF5252">>
    ELSE IF noteValue = 6 THEN <<"hex", "#448AFF">>
    ELSE IF noteValue = 7 THEN <<"hex", "#69F0AE">>
    ELSE <<"hex", "#9E9E9E">>

\* case COLOR_SCHEMES.MUSIC_THEORY: root, fourth, fifth, other
musicTheoryColor(noteValue) ==
    IF noteValue = 0 THEN <<"hex", "#FF5252">>
    ELSE IF noteValue = 5 THEN <<"hex", "#448AFF">>
    ELSE IF noteValue = 7 THEN <<"hex", "#69F0AE">>
    ELSE <<"hex", "#9E9E9E">>

\* a colour is <<"hsl", hue, saturation, lightness>> or <<"hex", "#rrggbb">>
getPadColor(pad, scheme) ==
    LET noteValue == pad.note % 12 IN
    CASE scheme = "rainbow" ->
            <<"hsl", (noteValue * 30 + pad.row * 15) % 360, 85, 65>>
      [] scheme = "music-theory" -> musicTheoryColor(noteValue)
      [] scheme = "checkerboard" ->
            IF (pad.row + pad.col) % 2 = 0 THEN <<"hex", "#212121">>
            ELSE <<"hex", "#616161">>
      [] scheme = "neon-glow" ->
            <<"hsl", (noteValue * 30) % 360, 100, 65>>
      [] scheme = "mpc" -> <<"hex", "#424242">>
      [] scheme = "midnight" ->
            <<"hex", synthwaveColors[((noteValue + pad.row * 2) % 8) + 1]>>
      [] OTHER -> <<"hex", "#616161">>

\* applyColorScheme colouring by the scheme the component starts with
\* instead of the selected one
applyColorScheme_InitialScheme(ps, scheme) ==
    [k \in 1..Len(ps) |->
        [id |-> ps[k].id, note |-> ps[k].note, soundFile |-> ps[k].soundFile,
         isActive |-> ps[k].isActive, isPressed |-> ps[k].isPressed,
         row |-> ps[k].row, col |-> ps[k].col, noteName |-> ps[k].noteName,
         hasCustomSound |-> ps[k].hasCustomSound,
         color |-> getPadColor(ps[k], "rainbow")]]

\* pads.map(pad => ({...pad, color: getPadColor(pad)}))
applyColorScheme(ps, scheme) ==
    [k \in 1..Len(ps) |->
        [id |-> ps[k].id, note |-> ps[k].note, soundFile |-> ps[k].soundFile,
         isActive |-> ps[k].isActive, isPressed |-> ps[k].isPressed,
         row |-> ps[k].row, col |-> ps[k].col, noteName |-> ps[k].noteName,
         hasCustomSound |-> ps[k].hasCustomSound,
         color |-> getPadColor(ps[k], scheme)]]

\* `default-sound-${i}`
DefaultSoundId(i) == <<"default-sound", i>>

\* `custom-sound-${padId}-${Date.now()}`
CustomSoundId(padId, stamp) == <<"custom-sound", padId, stamp>>

\* const i = (rows - 1 - row) * cols + col, with an off-by-one in the row term
PadLinearIndex_RowOffByOne(rows, cols, row, col) == (rows - row) * cols + col

\* const i = (rows - 1 - row) * cols + col, numbering from the top row instead
PadLinearIndex_TopDown(rows, cols, row, col) == row * cols + col

\* const i = (rows - 1 - row) * cols + col
PadLinearIndex(rows, cols, row, col) == (rows - 1 - row) * cols + col

\* the object pushed in the inner loop body (color is added by applyColorScheme)
NewPad(rows, cols, row, col) ==
    LET i == PadLinearIndex(rows, cols, row, col)
        note == startNote + i
    IN [id |-> i, note |-> note, soundFile |-> DefaultSoundId(i),
        isActive |-> FALSE, isPressed |-> FALSE, row |-> row, col |-> col,
        noteName |-> getNoteName(note), hasCustomSound |-> FALSE,
        color |-> <<"hex", "">>]

\* for (let col = 0; col < cols; col++) push(...)
RowOfPads(rows, cols, row) ==
    [c \in 1..cols |-> NewPad(rows, cols, row, c - 1)]

\* for (let row = rows - 1; row >= 0; row--) ...
RECURSIVE RowsFrom(_, _, _)
RowsFrom(rows, cols, row) ==
    IF row < 0 THEN <<>>
    ELSE RowOfPads(rows, cols, row) \o RowsFrom(rows, cols, row - 1)

\* the value initializePads assigns to pads
initializePads(size, scheme) ==
    LET d == GRID_DIMENSIONS(size)
    IN applyColorScheme(RowsFrom(d.rows, d.cols, d.rows - 1), scheme)

\* the index clamped to the array: 0 when there is no such pad
findIndexByNote_ClampsToFirst(ps, note) ==
    LET hits == {k \in 1..Len(ps) : ps[k].note = note}
    IN IF hits = {} THEN 0
       ELSE (CHOOSE k \in hits : \A j \in hits : k <= j) - 1

\* pads.findIndex(pad => pad.note === note), -1 when there is none
findIndexByNote(ps, note) ==
    LET hits == {k \in 1..Len(ps) : ps[k].note = note}
    IN IF hits = {} THEN 0 - 1
       ELSE (CHOOSE k \in hits : \A j \in hits : k <= j) - 1

\* pads.findIndex(pad => pad.id === padId), -1 when there is none
findIndexById(ps, padId) ==
    LET hits == {k \in 1..Len(ps) : ps[k].id = padId}
    IN IF hits = {} THEN 0 - 1
       ELSE (CHOOSE k \in hits : \A j \in hits : k <= j) - 1

\* Map.set(key, value)
MapSet(m, key, value) ==
    [x \in (DOMAIN m) \cup {key} |-> IF x = key THEN value ELSE m[x]]

\* new Map()
EmptyMap == [x \in {} |-> null]

\* (data[0] & 0xf0)
MaskHighNibble(byte) == (byte \div 16) * 16

\* the MIME check letting every file through
IsAudioType_Any(type) == TRUE

\* file.type.startsWith('audio/'), a MIME type being <<type, subtype>>
IsAudioType(type) == type[1] = "audio"

(***************************************************************************)
(* The environment: the values the platform hands to the handlers.         *)
(***************************************************************************)
\* the MIDI input ports of the platform
InputPorts == {"input-0", "input-1"}

\* the pads that receive pointer and touch events: the two lowest pads,
\* which every grid holds
PlayedPadIds == {0, 1}

\* the pads that receive mousedown: the played pads and the first pad the
\* smallest grid, 3x3, does not hold
ClickedPadIds == PlayedPadIds \cup {3 * 3}

\* data[0]: note-off and note-on on the first and a later channel, control change
StatusBytes == {128, 143, 144, 153, 176}

\* data[1]: the notes of the played pads and a note above every grid
NoteBytes == {startNote + i : i \in PlayedPadIds} \cup {100}

\* data[2]
VelocityBytes == {0, 100}

\* the files the picker can hand over; decodable says whether
\* arrayBuffer() and decodeAudioData() both succeed on it
Files ==
    { [name |-> "kick.wav", type |-> <<"audio", "wav">>, decodable |-> TRUE],
      [name |-> "snare.mp3", type |-> <<"audio", "mpeg">>, decodable |-> TRUE],
      [name |-> "broken.wav", type |-> <<"audio", "wav">>, decodable |-> FALSE],
      [name |-> "notes.txt", type |-> <<"text", "plain">>, decodable |-> FALSE] }

\* how many buffers ctx.createBuffer hands out before it throws
\* (8 * 8, the pads of the largest grid: it never throws)
CreateBufferLimits == {1, 8 * 8}

(***************************************************************************)
(* The state of the component.                                             *)
(***************************************************************************)
VARIABLES
    phase,                \* "constructed", "mounted", "destroyed"
    midiRequest,          \* the promise of requestMIDIAccess: "none", "pending", "settled"
    midiAccess,           \* null or "granted"
    midiInputs,           \* the ids of the listed devices
    available,            \* the ports midiAccess.inputs holds: the connected ones
    selectedInput,        \* "" or a device id
    onmidimessage,        \* the ports whose onmidimessage is handleMIDIMessage
    pads,
    error,
    audioContext,         \* null, "open" or "closed"
    audioBuffers,         \* sound id -> buffer
    selectedColorScheme,
    selectedGridSize,
    gridTemplateColumns,  \* the column count of repeat(cols, ...)
    selectedPadForSound,  \* <<>> (null) or <<id of the pad>>
    showSoundAssignModal,
    customSoundNames,     \* pad id -> file name
    globalListeners,      \* the document's mouseup and touchend listeners are installed
    timers,               \* the pending decay timers, oldest first, each its captured padIndex
    staleTimers,          \* history: how many of them, the oldest, a release before the last
                          \* grid-size change scheduled
    longPress,            \* the pending long-press timers, oldest first
    touches,              \* the ids of the pads a finger that started on them still touches
    decodes,              \* the loadCustomSound calls awaiting their file, each with the
                          \* history flag stale: the grid size was changed since it started
    now,                  \* the last value Date.now() returned
    events,               \* input events delivered so far
    out                   \* the calls the last handler made

vars ==
    <<phase, midiRequest, midiAccess, midiInputs, available, selectedInput,
      onmidimessage, pads, error, audioContext, audioBuffers, selectedColorScheme,
      selectedGridSize, gridTemplateColumns, selectedPadForSound,
      showSoundAssignModal, customSoundNames, globalListeners, timers,
      staleTimers, longPress, touches, decodes, now, events, out>>

midiVars ==
    <<midiRequest, midiAccess, midiInputs, available, selectedInput, onmidimessage>>

configVars == <<selectedColorScheme, selectedGridSize, gridTemplateColumns>>

modalVars == <<selectedPadForSound, showSoundAssignModal>>

\* lines 36-52 and 444: the declarations' initial values
Init ==
    /\ phase = "constructed"
    /\ midiRequest = "none"
    /\ midiAccess = null
    /\ midiInputs = {}
    /\ available = InputPorts
    /\ selectedInput = ""
    /\ onmidimessage = {}
    /\ pads = <<>>
    /\ error = null
    /\ audioContext = null
    /\ audioBuffers = EmptyMap
    /\ selectedColorScheme = "rainbow"
    /\ selectedGridSize = "4x4"
    /\ gridTemplateColumns = 4
    /\ selectedPadForSound = <<>>
    /\ showSoundAssignModal = FALSE
    /\ customSoundNames = EmptyMap
    /\ globalListeners = FALSE
    /\ timers = <<>>
    /\ staleTimers = 0
    /\ longPress = <<>>
    /\ touches = {}
    /\ decodes = <<>>
    /\ now = 0
    /\ events = 0
    /\ out = <<>>

(***************************************************************************)
(* The audio bank.                                                         *)
(***************************************************************************)
\* the 0.5 s decaying sine at 220 * 2^((note - 57) / 12) Hz
ToneBuffer(note) == [kind |-> "tone", note |-> note, name |-> ""]

\* the result of decodeAudioData on the bytes of file
DecodedBuffer(file) == [kind |-> "decoded", note |-> 0, name |-> file.name]

\* loadDefaultSounds with its loop starting at i = 1
loadDefaultSounds_SkipsFirst(bufs, soundPads, limit) ==
    LET done == IF limit < Len(soundPads) THEN limit ELSE Len(soundPads)
        ids == {soundPads[k].soundFile : k \in 2..done}
        padOf(id) == CHOOSE k \in 2..done : soundPads[k].soundFile = id
    IN [id \in (DOMAIN bufs) \cup ids |->
          IF id \in ids THEN ToneBuffer(soundPads[padOf(id)].note) ELSE bufs[id]]

\* loadDefaultSounds starting from audioBuffers = new Map()
loadDefaultSounds_FreshMap(bufs, soundPads, limit) ==
    LET done == IF limit < Len(soundPads) THEN limit ELSE Len(soundPads)
        ids == {soundPads[k].soundFile : k \in 1..done}
        padOf(id) == CHOOSE k \in 1..done : soundPads[k].soundFile = id
    IN [id \in ids |-> ToneBuffer(soundPads[padOf(id)].note)]

\* loadDefaultSounds: the bank after the loop, createBuffer throwing once
\* limit buffers were handed out
loadDefaultSounds(bufs, soundPads, limit) ==
    LET done == IF limit < Len(soundPads) THEN limit ELSE Len(soundPads)
        ids == {soundPads[k].soundFile : k \in 1..done}
        padOf(id) == CHOOSE k \in 1..done : soundPads[k].soundFile = id
    IN [id \in (DOMAIN bufs) \cup ids |->
          IF id \in ids THEN ToneBuffer(soundPads[padOf(id)].note) ELSE bufs[id]]

\* the catch block of loadDefaultSounds
loadDefaultSoundsError(err, soundPads, limit) ==
    IF limit < Len(soundPads) THEN "Failed to load sound files" ELSE err

(***************************************************************************)
(* The pad state machine.  A handler's synchronous calls thread a store    *)
(* st = [pads, timers, out] through triggerPad, releasePad and playSound.  *)
(***************************************************************************)
Store == [pads |-> pads, timers |-> timers, out |-> <<>>]

\* playSound: the request is logged with whether a buffer source was started
playSound(st, soundFile) ==
    LET started == audioContext # null /\ soundFile \in DOMAIN audioBuffers
    IN [st EXCEPT !.out = Append(@, <<"playSound", soundFile, started>>)]

\* triggerPad that also calls clearTimeout for the pad's pending decay timers
triggerPad_CancelsTimer(st, note) ==
    LET padIndex == findIndexByNote(st.pads, note)
        called == [st EXCEPT !.out = Append(@, <<"triggerPad", note>>)]
    IN IF padIndex >= 0
       THEN LET lit == [called EXCEPT !.pads[padIndex + 1].isActive = TRUE,
                                      !.pads[padIndex + 1].isPressed = TRUE,
                                      !.timers = SelectSeq(@, LAMBDA t : t # padIndex)]
            IN playSound(lit, lit.pads[padIndex + 1].soundFile)
       ELSE called

\* triggerPad that plays the pad's default sound whatever the pad holds
triggerPad_PlaysDefault(st, note) ==
    LET padIndex == findIndexByNote(st.pads, note)
        called == [st EXCEPT !.out = Append(@, <<"triggerPad", note>>)]
    IN IF padIndex >= 0
       THEN LET lit == [called EXCEPT !.pads[padIndex + 1].isActive = TRUE,
                                      !.pads[padIndex + 1].isPressed = TRUE]
            IN playSound(lit, DefaultSoundId(lit.pads[padIndex + 1].id))
       ELSE called

\* triggerPad
triggerPad(st, note) ==
    LET padIndex == findIndexByNote(st.pads, note)
        called == [st EXCEPT !.out = Append(@, <<"triggerPad", note>>)]
    IN IF padIndex >= 0
       THEN LET lit == [called EXCEPT !.pads[padIndex + 1].isActive = TRUE,
                                      !.pads[padIndex + 1].isPressed = TRUE]
            IN playSound(lit, lit.pads[padIndex + 1].soundFile)
       ELSE called

\* releasePad: setTimeout(..., 100) appends the captured padIndex
releasePad(st, note) ==
    LET padIndex == findIndexByNote(st.pads, note)
        called == [st EXCEPT !.out = Append(@, <<"releasePad", note>>)]
    IN IF padIndex >= 0
       THEN [called EXCEPT !.pads[padIndex + 1].isPressed = FALSE,
                           !.timers = Append(@, padIndex)]
       ELSE called

\* the callback leaving isActive as it is
decayTimeout_Noop(ps, padIndex) == ps

\* the callback of the setTimeout in releasePad; pads[padIndex] is undefined
\* when the grid was rebuilt smaller, and the assignment then throws
decayTimeout(ps, padIndex) ==
    IF padIndex < Len(ps)
    THEN [ps EXCEPT ![padIndex + 1].isActive = FALSE]
    ELSE ps

\* handleMIDIMessage comparing the status byte itself, without & 0xf0
handleMIDIMessage_NoMask(st, data) ==
    IF data[1] = 144
    THEN IF data[3] > 0 THEN triggerPad(st, data[2]) ELSE releasePad(st, data[2])
    ELSE IF data[1] = 128
    THEN releasePad(st, data[2])
    ELSE st

\* handleMIDIMessage, data = <<status, note, velocity>>
handleMIDIMessage(st, data) ==
    IF MaskHighNibble(data[1]) = 144
    THEN IF data[3] > 0 THEN triggerPad(st, data[2]) ELSE releasePad(st, data[2])
    ELSE IF MaskHighNibble(data[1]) = 128
    THEN releasePad(st, data[2])
    ELSE st

\* pads.forEach(pad => { if (pad.isPressed) releasePad(pad.note) }), from index k on
RECURSIVE releasePressedFrom(_, _)
releasePressedFrom(st, k) ==
    IF k > Len(st.pads) THEN st
    ELSE IF st.pads[k].isPressed
    THEN releasePressedFrom(releasePad(st, st.pads[k].note), k + 1)
    ELSE releasePressedFrom(st, k + 1)

\* the body releasing the first pressed pad only (find instead of forEach)
releaseAllPressed_FirstOnly(st) ==
    LET pressed == {k \in 1..Len(st.pads) : st.pads[k].isPressed}
    IN IF pressed = {} THEN st
       ELSE releasePad(st, st.pads[CHOOSE k \in pressed : \A j \in pressed : k <= j].note)

\* handleGlobalMouseUp and handleGlobalTouchEnd have this one body
releaseAllPressed(st) == releasePressedFrom(st, 1)

\* the store a handler leaves is written back
Commit(st) ==
    /\ pads' = st.pads
    /\ timers' = st.timers
    /\ out' = st.out

\* an input event is delivered: one more of the MaxEvents of the run
InputEvent ==
    /\ events < MaxEvents
    /\ events' = events + 1

(***************************************************************************)
(* Mount and configuration.                                                *)
(***************************************************************************)
\* onMount; supported: navigator.requestMIDIAccess exists
OnMount(supported, limit) ==
    /\ phase = "constructed"
    /\ phase' = "mounted"
    /\ audioContext' = "open"
    /\ midiRequest' = IF supported THEN "pending" ELSE "none"
    /\ pads' = initializePads(selectedGridSize, selectedColorScheme)
    /\ gridTemplateColumns' = GRID_DIMENSIONS(selectedGridSize).cols
    /\ audioBuffers' = loadDefaultSounds(audioBuffers, pads', limit)
    /\ error' = loadDefaultSoundsError(
                    IF supported THEN error
                    ELSE "WebMIDI is not supported in your browser. Try using Chrome or Edge.",
                    pads', limit)
    /\ globalListeners' = TRUE
    /\ out' = <<>>
    /\ UNCHANGED <<midiAccess, midiInputs, available, selectedInput, onmidimessage,
                   selectedColorScheme, selectedGridSize, modalVars,
                   customSoundNames, timers, longPress, touches, decodes, now,
                   events, staleTimers>>

\* handleGridSizeChange; the select fires change for another size only
HandleGridSizeChange(size, limit) ==
    /\ phase = "mounted"
    /\ size # selectedGridSize
    /\ InputEvent
    /\ selectedGridSize' = size
    /\ pads' = initializePads(size, selectedColorScheme)
    /\ gridTemplateColumns' = GRID_DIMENSIONS(size).cols
    /\ audioBuffers' = loadDefaultSounds(audioBuffers, pads', limit)
    /\ error' = loadDefaultSoundsError(error, pads', limit)
    /\ customSoundNames' = EmptyMap
    /\ staleTimers' = Len(timers)
    /\ decodes' = [k \in 1..Len(decodes) |-> [decodes[k] EXCEPT !.stale = TRUE]]
    /\ out' = <<>>
    /\ UNCHANGED <<phase, midiVars, audioContext, selectedColorScheme, modalVars,
                   globalListeners, timers, longPress, touches, now>>

\* handleColorSchemeChange; the select fires change for another scheme only
HandleColorSchemeChange(scheme) ==
    /\ InputEvent
    /\ phase = "mounted"
    /\ scheme # selectedColorScheme
    /\ selectedColorScheme' = scheme
    /\ pads' = applyColorScheme(pads, scheme)
    /\ out' = <<>>
    /\ UNCHANGED <<phase, midiVars, error, audioContext, audioBuffers,
                   selectedGridSize, gridTemplateColumns, modalVars,
                   customSoundNames, globalListeners, timers, longPress,
                   touches, decodes, now, staleTimers>>

\* onDestroy: audioContext.close() and the two removeEventListener calls;
\* timers, promises and port handlers are left as they are
OnDestroy ==
    /\ InputEvent
    /\ phase = "mounted"
    /\ phase' = "destroyed"
    /\ audioContext' = IF audioContext # null THEN "closed" ELSE audioContext
    /\ globalListeners' = FALSE
    /\ out' = <<>>
    /\ UNCHANGED <<midiVars, pads, error, audioBuffers, configVars, modalVars,
                   customSoundNames, timers, longPress, touches, decodes, now,
                   staleTimers>>

(***************************************************************************)
(* MIDI.                                                                   *)
(***************************************************************************)
\* onMIDISuccess: the promise of requestMIDIAccess resolves
OnMIDISuccess ==
    /\ InputEvent
    /\ midiRequest = "pending"
    /\ midiRequest' = "settled"
    /\ midiAccess' = "granted"
    /\ midiInputs' = available
    /\ out' = <<>>
    /\ UNCHANGED <<phase, available, selectedInput, onmidimessage, pads, error,
                   audioContext, audioBuffers, configVars, modalVars,
                   customSoundNames, globalListeners, timers, longPress,
                   touches, decodes, now, staleTimers>>

\* the .catch of requestMIDIAccess swallowing the rejection without a message
OnMIDIFailure_Silent ==
    /\ InputEvent
    /\ midiRequest = "pending"
    /\ midiRequest' = "settled"
    /\ out' = <<>>
    /\ UNCHANGED <<phase, midiAccess, midiInputs, available, selectedInput,
                   onmidimessage, pads, error, audioContext, audioBuffers,
                   configVars, modalVars, customSoundNames, globalListeners,
                   timers, longPress, touches, decodes, now, staleTimers>>

\* the .catch of requestMIDIAccess: the promise rejects
OnMIDIFailure ==
    /\ InputEvent
    /\ midiRequest = "pending"
    /\ midiRequest' = "settled"
    /\ error' = "Failed to access MIDI devices. Please check your browser permissions."
    /\ out' = <<>>
    /\ UNCHANGED <<phase, midiAccess, midiInputs, available, selectedInput,
                   onmidimessage, pads, audioContext, audioBuffers, configVars,
                   modalVars, customSoundNames, globalListeners, timers,
                   longPress, touches, decodes, now, staleTimers>>

\* midiAccess.onstatechange for an input port that is plugged or unplugged:
\* the list is read again from midiAccess.inputs, which holds the connected
\* ports
PortStateChange(port, connects) ==
    /\ midiAccess # null
    /\ IF connects THEN port \notin available ELSE port \in available
    /\ available' = IF connects THEN available \cup {port} ELSE available \ {port}
    /\ midiInputs' = available'
    /\ out' = <<>>
    /\ UNCHANGED <<phase, midiRequest, midiAccess, selectedInput, onmidimessage,
                   pads, error, audioContext, audioBuffers, configVars, modalVars,
                   customSoundNames, globalListeners, timers, longPress,
                   touches, decodes, now, events, staleTimers>>

\* prevInput.onmidimessage = null, when midiAccess.inputs.get finds prevInput
detachPrevious(handlers, prev, ports) ==
    IF prev # "" /\ prev \in ports THEN handlers \ {prev} ELSE handlers

\* input.onmidimessage = handleMIDIMessage, when midiAccess.inputs.get finds input
attachSelected(handlers, value, ports) ==
    IF value \in ports THEN handlers \cup {value} ELSE handlers

\* handleInputChange; the select offers the listed devices
HandleInputChange(value) ==
    /\ InputEvent
    /\ phase = "mounted"
    /\ value \in midiInputs
    /\ value # selectedInput
    /\ midiAccess # null
    /\ selectedInput' = value
    /\ onmidimessage' = attachSelected(detachPrevious(onmidimessage, selectedInput, available),
                                       value, available)
    /\ out' = <<>>
    /\ UNCHANGED <<phase, midiRequest, midiAccess, midiInputs, available, pads,
                   error, audioContext, audioBuffers, configVars, modalVars,
                   customSoundNames, globalListeners, timers, longPress,
                   touches, decodes, now, staleTimers>>

\* a port with the handler attached delivers a message
MIDIMessage(port, data) ==
    /\ InputEvent
    /\ port \in onmidimessage
    /\ port \in available
    /\ Commit(handleMIDIMessage(Store, data))
    /\ UNCHANGED <<phase, midiVars, error, audioContext, audioBuffers,
                   configVars, modalVars, customSoundNames, globalListeners,
                   longPress, touches, decodes, now, staleTimers>>

(***************************************************************************)
(* Pointer and touch.  The modal's overlay covers the page, so a pad gets  *)
(* no mousedown, touchstart or contextmenu while it is shown; the pads     *)
(* with id in PlayedPadIds exist in every grid, and a pad gets a mousedown *)
(* only while the grid holds it.                                           *)
(***************************************************************************)
\* on:mousedown={() => handlePadMouseDown(pad)}
PadMouseDown(id) ==
    /\ InputEvent
    /\ phase = "mounted"
    /\ ~showSoundAssignModal
    /\ id < Len(pads)
    /\ Commit(triggerPad(Store, pads[id + 1].note))
    /\ UNCHANGED <<phase, midiVars, error, audioContext, audioBuffers,
                   configVars, modalVars, customSoundNames, globalListeners,
                   longPress, touches, decodes, now, staleTimers>>

\* the document's mouseup listener
HandleGlobalMouseUp ==
    /\ InputEvent
    /\ globalListeners
    /\ Commit(releaseAllPressed(Store))
    /\ UNCHANGED <<phase, midiVars, error, audioContext, audioBuffers,
                   configVars, modalVars, customSoundNames, globalListeners,
                   longPress, touches, decodes, now, staleTimers>>

\* the document's touchend listener, for a finger that started off the pads
HandleGlobalTouchEnd ==
    /\ InputEvent
    /\ globalListeners
    /\ Commit(releaseAllPressed(Store))
    /\ UNCHANGED <<phase, midiVars, error, audioContext, audioBuffers,
                   configVars, modalVars, customSoundNames, globalListeners,
                   longPress, touches, decodes, now, staleTimers>>

\* longPressTimer = setTimeout(...): the new timer is the one the variable holds
setLongPressTimer(lp, id) ==
    Append([k \in 1..Len(lp) |-> [lp[k] EXCEPT !.current = FALSE]],
           [pad |-> id, current |-> TRUE])

\* clearTimeout(longPressTimer): only the timer the variable holds is cancelled
clearLongPressTimer(lp) ==
    SelectSeq(lp, LAMBDA t : ~t.current)

\* a finger lands on a pad: both on:touchstart bindings of the button run,
\* handlePadTouchStart, then handlePadTouchStart and handlePadTouchStart_LongPress
PadTouchStart(id) ==
    /\ InputEvent
    /\ phase = "mounted"
    /\ ~showSoundAssignModal
    /\ id \notin touches
    /\ touches' = touches \cup {id}
    /\ Commit(triggerPad(triggerPad(Store, pads[id + 1].note), pads[id + 1].note))
    /\ longPress' = setLongPressTimer(longPress, id)
    /\ UNCHANGED <<phase, midiVars, error, audioContext, audioBuffers,
                   configVars, modalVars, customSoundNames, globalListeners,
                   decodes, now, staleTimers>>

\* the finger lifts: on:touchend={handlePadTouchEnd_LongPress} on the button,
\* then the event bubbles to the document's touchend listener
PadTouchEnd(id) ==
    /\ InputEvent
    /\ phase = "mounted"
    /\ id \in touches
    /\ touches' = touches \ {id}
    /\ longPress' = clearLongPressTimer(longPress)
    /\ Commit(IF globalListeners THEN releaseAllPressed(Store) ELSE Store)
    /\ UNCHANGED <<phase, midiVars, error, audioContext, audioBuffers,
                   configVars, modalVars, customSoundNames, globalListeners,
                   decodes, now, staleTimers>>

\* the callback of a setTimeout(..., 100) of releasePad runs
DecayTimerFires ==
    /\ timers # <<>>
    /\ pads' = decayTimeout(pads, Head(timers))
    /\ timers' = Tail(timers)
    /\ staleTimers' = IF staleTimers > 0 THEN staleTimers - 1 ELSE 0
    /\ out' = << <<IF Head(timers) < Len(pads) THEN "timeout" ELSE "TypeError",
                   Head(timers)>> >>
    /\ UNCHANGED <<phase, midiVars, error, audioContext, audioBuffers,
                   configVars, modalVars, customSoundNames, globalListeners,
                   longPress, touches, decodes, now, events>>

(***************************************************************************)
(* Sound assignment.                                                       *)
(***************************************************************************)
\* handlePadRightClick
PadContextMenu(id) ==
    /\ InputEvent
    /\ phase = "mounted"
    /\ ~showSoundAssignModal
    /\ selectedPadForSound' = <<pads[id + 1].id>>
    /\ showSoundAssignModal' = TRUE
    /\ out' = <<>>
    /\ UNCHANGED <<phase, midiVars, pads, error, audioContext, audioBuffers,
                   configVars, customSoundNames, globalListeners, timers,
                   longPress, touches, decodes, now, staleTimers>>

\* the callback of the setTimeout(..., 800) of handlePadTouchStart_LongPress runs
LongPressTimerFires ==
    /\ longPress # <<>>
    /\ longPress' = Tail(longPress)
    /\ selectedPadForSound' = <<Head(longPress).pad>>
    /\ showSoundAssignModal' = TRUE
    /\ out' = <<>>
    /\ UNCHANGED <<phase, midiVars, pads, error, audioContext, audioBuffers,
                   configVars, customSoundNames, globalListeners, timers,
                   touches, decodes, now, events, staleTimers>>

\* closeModal
CloseModal ==
    /\ InputEvent
    /\ phase = "mounted"
    /\ showSoundAssignModal
    /\ showSoundAssignModal' = FALSE
    /\ selectedPadForSound' = <<>>
    /\ out' = <<>>
    /\ UNCHANGED <<phase, midiVars, pads, error, audioContext, audioBuffers,
                   configVars, customSoundNames, globalListeners, timers,
                   longPress, touches, decodes, now, staleTimers>>

\* handleFileInputChange up to its await: the MIME check, then loadCustomSound
\* starts reading the file
HandleFileInputChange(file) ==
    /\ InputEvent
    /\ phase = "mounted"
    /\ showSoundAssignModal
    /\ IF ~IsAudioType(file.type)
       THEN /\ error' = "Please select an audio file (WAV, MP3, etc.)"
            /\ UNCHANGED decodes
       ELSE /\ audioContext # null
            /\ decodes' = Append(decodes, [file |-> file,
                                           padId |-> selectedPadForSound[1],
                                           stale |-> FALSE])
            /\ UNCHANGED error
    /\ out' = <<>>
    /\ UNCHANGED <<phase, midiVars, pads, audioContext, audioBuffers,
                   configVars, modalVars, customSoundNames, globalListeners,
                   timers, longPress, touches, now, staleTimers>>

\* the sequence s without its i-th element
RemoveAt(s, i) == SubSeq(s, 1, i - 1) \o SubSeq(s, i + 1, Len(s))

\* lines 308-309 written for every pad instead of pads[padIndex]
customSoundPads_EveryPad(ps, padId, stamp) ==
    [k \in 1..Len(ps) |->
        [ps[k] EXCEPT !.soundFile = CustomSoundId(padId, stamp),
                      !.hasCustomSound = TRUE]]

\* loadCustomSound after its awaits, the file read and decoded: lines 298-318
\* on pads; bank; names
customSoundPads(ps, padId, stamp) ==
    LET padIndex == findIndexById(ps, padId)
    IN IF padIndex >= 0
       THEN [ps EXCEPT ![padIndex + 1].soundFile = CustomSoundId(padId, stamp),
                       ![padIndex + 1].hasCustomSound = TRUE]
       ELSE ps

\* if (success) showSoundAssignModal = false, without the test
modalAfterLoad_AlwaysCloses(shown, success) == FALSE

\* handleFileInputChange, lines 502-504: if (success) showSoundAssignModal = false
modalAfterLoad(shown, success) == IF success THEN FALSE ELSE shown

customSoundBuffers(bufs, ps, padId, stamp, file) ==
    IF findIndexById(ps, padId) >= 0
    THEN MapSet(bufs, CustomSoundId(padId, stamp), DecodedBuffer(file))
    ELSE bufs

customSoundNamesAfter(names, ps, padId, file) ==
    IF findIndexById(ps, padId) >= 0 THEN MapSet(names, padId, file.name) ELSE names

\* the awaits of the i-th loadCustomSound in flight are over, and
\* handleFileInputChange resumes with its result; stamp is what Date.now()
\* returns when it is read: the value of the last reading, or a later one
LoadCustomSoundSettles(i, stamp) ==
    LET file == decodes[i].file
        padId == decodes[i].padId
    IN /\ i \in 1..Len(decodes)
       /\ stamp \in {now, now + 1}
       /\ decodes' = RemoveAt(decodes, i)
       /\ IF file.decodable
          THEN /\ pads' = customSoundPads(pads, padId, stamp)
               /\ audioBuffers' = customSoundBuffers(audioBuffers, pads, padId, stamp, file)
               /\ customSoundNames' = customSoundNamesAfter(customSoundNames, pads, padId, file)
               /\ now' = IF findIndexById(pads, padId) >= 0 THEN stamp ELSE now
               /\ UNCHANGED error
          ELSE /\ stamp = now
               /\ error' = "Failed to load sound file"
               /\ UNCHANGED <<pads, audioBuffers, customSoundNames, now>>
       /\ showSoundAssignModal' = modalAfterLoad(showSoundAssignModal, file.decodable)
       /\ out' = << <<"loadCustomSound", padId, file.name, file.decodable>> >>
       /\ UNCHANGED <<phase, midiVars, audioContext, configVars,
                      selectedPadForSound, globalListeners, timers, longPress,
                      touches, events, staleTimers>>

(***************************************************************************)
(* The specification.                                                      *)
(***************************************************************************)
Next ==
    \/ \E supported \in BOOLEAN, limit \in CreateBufferLimits : OnMount(supported, limit)
    \/ \E size \in GRID_SIZES, limit \in CreateBufferLimits : HandleGridSizeChange(size, limit)
    \/ \E scheme \in COLOR_SCHEMES : HandleColorSchemeChange(scheme)
    \/ OnDestroy
    \/ OnMIDISuccess
    \/ OnMIDIFailure
    \/ \E port \in InputPorts, connects \in BOOLEAN : PortStateChange(port, connects)
    \/ \E value \in InputPorts : HandleInputChange(value)
    \/ \E port \in InputPorts, status \in StatusBytes, note \in NoteBytes,
          velocity \in VelocityBytes : MIDIMessage(port, <<status, note, velocity>>)
    \/ \E id \in ClickedPadIds : PadMouseDown(id)
    \/ HandleGlobalMouseUp
    \/ HandleGlobalTouchEnd
    \/ \E id \in PlayedPadIds : PadTouchStart(id)
    \/ \E id \in PlayedPadIds : PadTouchEnd(id)
    \/ DecayTimerFires
    \/ \E id \in PlayedPadIds : PadContextMenu(id)
    \/ LongPressTimerFires
    \/ CloseModal
    \/ \E file \in Files : HandleFileInputChange(file)
    \/ \E i \in 1..MaxEvents, stamp \in 0..MaxEvents : LoadCustomSoundSettles(i, stamp)

Spec == Init /\ [][Next]_vars

\* the event loop runs the callback of every timer that is due
FairSpec == Spec /\ WF_vars(DecayTimerFires)

(***************************************************************************)
(* Vocabulary of the properties.                                           *)
(***************************************************************************)
Mounted == phase = "mounted"

\* onMount has built the pads (they outlive the teardown)
Built == phase # "constructed"

Dim == GRID_DIMENSIONS(selectedGridSize)

PadIndices == 1..Len(pads)

Idle(pad) == ~pad.isPressed /\ ~pad.isActive

Held(pad) == pad.isPressed /\ pad.isActive

Releasing(pad) == ~pad.isPressed /\ pad.isActive

\* the handler that made the calls o called triggerPad(note) / releasePad(note)
CallsTrigger(o, note) == \E i \in 1..Len(o) : o[i] = <<"triggerPad", note>>

CallsRelease(o, note) == \E i \in 1..Len(o) : o[i] = <<"releasePad", note>>

CallsPlay(o) == \E i \in 1..Len(o) : o[i][1] = "playSound"

(***************************************************************************)
(* C1: after mount, whatever grid size is selected, there are exactly      *)
(* rows * cols pads, their notes are pairwise distinct (as many notes as   *)
(* pads) and are exactly 36 .. 36 + rows * cols - 1, and every pad's id is *)
(* its note - 36.                                                          *)
(***************************************************************************)
C1_PadCollection ==
    Mounted =>
        /\ selectedGridSize \in GRID_SIZES
        /\ Len(pads) = Dim.rows * Dim.cols
        /\ Cardinality({pads[k].note : k \in PadIndices}) = Len(pads)
        /\ {pads[k].note : k \in PadIndices} = 36..(36 + Dim.rows * Dim.cols - 1)
        /\ \A k \in PadIndices : pads[k].id = pads[k].note - 36

\* the 8x8 grid was selected and a pad of it is being played
C1_Witness ==
    /\ Mounted
    /\ selectedGridSize = "8x8"
    /\ Len(pads) = 64
    /\ \E k \in PadIndices : Held(pads[k])

(***************************************************************************)
(* C2: every cell (r, c) of the grid, r = 0 the top row, holds exactly one *)
(* pad, and the pad at (r, c) has note 36 + (rows - 1 - r) * cols + c; the *)
(* top-left pad has note 36 + (rows - 1) * cols and the bottom-left pad    *)
(* has note 36.                                                            *)
(***************************************************************************)
C2_LayoutLaw ==
    Mounted =>
        /\ {<<pads[k].row, pads[k].col>> : k \in PadIndices}
              = (0..(Dim.rows - 1)) \X (0..(Dim.cols - 1))
        /\ Cardinality({<<pads[k].row, pads[k].col>> : k \in PadIndices}) = Len(pads)
        /\ \A k \in PadIndices :
              /\ pads[k].note = 36 + (Dim.rows - 1 - pads[k].row) * Dim.cols + pads[k].col
              /\ pads[k].row = 0 /\ pads[k].col = 0
                    => pads[k].note = 36 + (Dim.rows - 1) * Dim.cols
              /\ pads[k].row = Dim.rows - 1 /\ pads[k].col = 0 => pads[k].note = 36

\* the 12x2 grid: two rows of twelve, note 48 top left and note 36 bottom left
C2_Witness ==
    /\ Mounted
    /\ selectedGridSize = "12x2"
    /\ \E k \in PadIndices : pads[k].row = 0 /\ pads[k].col = 0 /\ pads[k].note = 48
    /\ \E k \in PadIndices : pads[k].row = 1 /\ pads[k].col = 0 /\ pads[k].note = 36
    /\ \E k \in PadIndices : pads[k].row = 0 /\ pads[k].col = 11 /\ pads[k].note = 59

(***************************************************************************)
(* C3: a message <<status, note, velocity>> makes handleMIDIMessage call   *)
(* triggerPad(note) when status's high nibble is 9 and velocity > 0,       *)
(* releasePad(note) when the high nibble is 9 and velocity = 0 or the      *)
(* high nibble is 8, whatever the channel nibble; any other status makes   *)
(* it call nothing, leaving the pads and the timers alone and requesting   *)
(* no playback.                                                            *)
(***************************************************************************)
C3_Decoded(status, note, velocity) ==
    LET high == status \div 16 IN
    IF high = 9 /\ velocity > 0
    THEN /\ out'[1] = <<"triggerPad", note>>
         /\ ~CallsRelease(out', note)
         /\ \A i \in 2..Len(out') : out'[i][1] = "playSound"
    ELSE IF high = 9 \/ high = 8
    THEN out' = << <<"releasePad", note>> >>
    ELSE /\ out' = <<>>
         /\ pads' = pads
         /\ timers' = timers

C3_MidiDecoder ==
    [][\A port \in InputPorts, status \in StatusBytes, note \in NoteBytes,
          velocity \in VelocityBytes :
            MIDIMessage(port, <<status, note, velocity>>)
                => C3_Decoded(status, note, velocity)]_vars

\* only a MIDI message can name note 100, which no grid holds
C3_Witness ==
    /\ onmidimessage # {}
    /\ out = << <<"triggerPad", 100>> >>

(***************************************************************************)
(* C4: a press of a pad's note makes the pad held, also when the pad was   *)
(* releasing; an idle pad leaves idle only by a press; a release of a held *)
(* pad makes isPressed false, keeps isActive true and schedules a decay    *)
(* timer for the pad; a releasing pad becomes idle only by the firing of   *)
(* the decay timer at the head of the queue, which is a timer of that pad; *)
(* and a releasing pad does not stay releasing for ever.                   *)
(***************************************************************************)
C4_Step ==
    (phase' = phase /\ selectedGridSize' = selectedGridSize) =>
        \A k \in PadIndices :
            /\ CallsTrigger(out', pads[k].note) => Held(pads'[k])
            /\ Idle(pads[k]) /\ ~Idle(pads'[k])
                  => Held(pads'[k]) /\ CallsTrigger(out', pads[k].note)
            /\ Held(pads[k]) /\ CallsRelease(out', pads[k].note)
                  => /\ Releasing(pads'[k])
                     /\ Len(timers') > Len(timers)
                     /\ SubSeq(timers', 1, Len(timers)) = timers
                     /\ \E i \in (Len(timers) + 1)..Len(timers') : timers'[i] = k - 1
            /\ Releasing(pads[k]) /\ Idle(pads'[k])
                  => /\ timers # <<>>
                     /\ Head(timers) = k - 1
                     /\ timers' = Tail(timers)
                     /\ out' = << <<"timeout", k - 1>> >>

C4_PressReleaseCycle ==
    /\ [][C4_Step]_vars
    /\ \A id \in PlayedPadIds :
          (Built /\ Releasing(pads[id + 1]))
              ~> (Built /\ (Idle(pads[id + 1]) \/ pads[id + 1].isPressed))

\* a pad was pressed and released, nothing else happened, and its timer has
\* just fired: the pad is idle again
C4_Witness ==
    /\ Mounted
    /\ events = 2
    /\ timers = <<>>
    /\ out = << <<"timeout", 0>> >>
    /\ Idle(pads[1])

(***************************************************************************)
(* C5: no pad is ever pressed without being active: every pad's            *)
(* (isPressed, isActive) is (false, false), (true, true) or (false, true). *)
(***************************************************************************)
C5_ThreeStates ==
    \A k \in PadIndices : Idle(pads[k]) \/ Held(pads[k]) \/ Releasing(pads[k])

(***************************************************************************)
(* C6: a decay timer is never cancelled: a press leaves the queue of       *)
(* timers as it is, and a timer leaves the queue only by firing.  When it  *)
(* fires for a pad of the grid it sets that pad's isActive to false and    *)
(* changes nothing else of the pads (isPressed stays), nor the audio bank, *)
(* and requests no playback.  Every pending timer fires in the end.        *)
(***************************************************************************)
C6_Step ==
    /\ \A note \in NoteBytes : CallsTrigger(out', note) => timers' = timers
    /\ \/ (Len(timers') >= Len(timers) /\ SubSeq(timers', 1, Len(timers)) = timers)
       \/ /\ timers # <<>>
          /\ timers' = Tail(timers)
          /\ out' \in { << <<"timeout", Head(timers)>> >>, << <<"TypeError", Head(timers)>> >> }
    /\ (timers # <<>> /\ timers' = Tail(timers) /\ Head(timers) < Len(pads))
          => /\ pads' = [pads EXCEPT ![Head(timers) + 1].isActive = FALSE]
             /\ audioBuffers' = audioBuffers
             /\ ~CallsPlay(out')

C6_TimerNeverCancelled ==
    /\ [][C6_Step]_vars
    /\ (timers # <<>>) ~> (timers = <<>>)

\* the pad was pressed again before the timer of its release fired, and the
\* timer has just fired: the pad is pressed and no longer active
C6_Witness ==
    /\ out = << <<"timeout", 0>> >>
    /\ pads[1].isPressed
    /\ ~pads[1].isActive

(***************************************************************************)
(* C7: a global mouseup or touchend (also the touchend of a finger lifted  *)
(* from a pad) leaves no pad pressed, appends exactly one decay timer for  *)
(* each pad that was pressed and none for any other, clears isPressed of   *)
(* the pads that were pressed and changes nothing else of any pad.         *)
(***************************************************************************)
C7_Released ==
    LET pressed == {k \in PadIndices : pads[k].isPressed}
        added == SubSeq(timers', Len(timers) + 1, Len(timers'))
    IN /\ Len(pads') = Len(pads)
       /\ \A k \in PadIndices : ~pads'[k].isPressed
       /\ Len(timers') >= Len(timers)
       /\ SubSeq(timers', 1, Len(timers)) = timers
       /\ Len(added) = Cardinality(pressed)
       /\ {added[i] + 1 : i \in 1..Len(added)} = pressed
       /\ \A k \in PadIndices \ pressed : pads'[k] = pads[k]
       /\ \A k \in pressed : pads'[k] = [pads[k] EXCEPT !.isPressed = FALSE]

C7_GlobalRelease ==
    [][(HandleGlobalMouseUp \/ HandleGlobalTouchEnd
            \/ \E id \in PlayedPadIds : PadTouchEnd(id)) => C7_Released]_vars

\* two pads were pressed and one global mouseup or touchend released both
C7_Witness ==
    /\ out = << <<"releasePad", 36>>, <<"releasePad", 37>> >>
    /\ timers = <<0, 1>>
    /\ Releasing(pads[1])
    /\ Releasing(pads[2])

(***************************************************************************)
(* C8: every call of triggerPad for a note of the grid is followed by a    *)
(* playback request for the sound id the pad holds, default or custom;     *)
(* the request starts a source exactly when a buffer is registered under   *)
(* that id and otherwise does nothing, nothing is thrown, and the pad is   *)
(* held either way.                                                        *)
(***************************************************************************)
C8_PressRequestsPlayback ==
    \A i \in 1..Len(out) :
        out[i][1] = "triggerPad" =>
            /\ \A j \in 1..Len(out) : out[j][1] \in {"triggerPad", "playSound"}
            /\ LET padIndex == findIndexByNote(pads, out[i][2])
               IN padIndex >= 0 =>
                    /\ i < Len(out)
                    /\ out[i + 1] = <<"playSound", pads[padIndex + 1].soundFile,
                                      pads[padIndex + 1].soundFile \in DOMAIN audioBuffers>>
                    /\ Held(pads[padIndex + 1])

\* a pad whose sound id has no buffer was pressed: the request started
\* nothing and the pad is held
C8_Witness ==
    \E k \in PadIndices :
        /\ out = << <<"triggerPad", pads[k].note>>,
                    <<"playSound", pads[k].soundFile, FALSE>> >>
        /\ pads[k].soundFile \notin DOMAIN audioBuffers
        /\ Held(pads[k])

(***************************************************************************)
(* C9: when a loadCustomSound fails, no pad changes (sound id and          *)
(* hasCustomSound included), the audio bank and the custom names do not    *)
(* change, the error slot holds a message, and the modal is as it was: an  *)
(* open modal stays open.                                                  *)
(***************************************************************************)
LoadResult(o) ==
    IF Len(o) = 1 /\ o[1][1] = "loadCustomSound" THEN <<o[1][4]>> ELSE <<>>

C9_FailedLoad ==
    [][LoadResult(out') = <<FALSE>> =>
          /\ pads' = pads
          /\ audioBuffers' = audioBuffers
          /\ customSoundNames' = customSoundNames
          /\ error' # null
          /\ showSoundAssignModal' = showSoundAssignModal]_vars

\* the file did not decode: the error is shown and the modal is still open
C9_Witness ==
    /\ out = << <<"loadCustomSound", 0, "broken.wav", FALSE>> >>
    /\ showSoundAssignModal
    /\ error = "Failed to load sound file"
    /\ ~pads[1].hasCustomSound
    /\ pads[1].soundFile = DefaultSoundId(0)

(***************************************************************************)
(* C10: when a loadCustomSound succeeds for a pad of the grid, the decoded *)
(* buffer is in the audio bank under a custom id made for that pad, which  *)
(* is no default id and no other pad's sound id; the pad's sound id is     *)
(* that id and its hasCustomSound is true; nothing else of that pad        *)
(* changes (its isPressed and isActive included), no other pad changes,    *)
(* and every other entry of the bank is as it was.                         *)
(***************************************************************************)
C10_Loaded(padId, name) ==
    LET k == findIndexById(pads, padId) + 1
        id == pads'[k].soundFile
    IN /\ id[1] = "custom-sound"
       /\ id[2] = padId
       /\ \A j \in PadIndices : id # DefaultSoundId(pads[j].id)
       /\ \A j \in PadIndices \ {k} : id # pads'[j].soundFile
       /\ id \in DOMAIN audioBuffers'
       /\ audioBuffers'[id].kind = "decoded"
       /\ audioBuffers'[id].name = name
       /\ DOMAIN audioBuffers' = (DOMAIN audioBuffers) \cup {id}
       /\ \A other \in (DOMAIN audioBuffers) \ {id} : audioBuffers'[other] = audioBuffers[other]
       /\ pads' = [pads EXCEPT ![k].soundFile = id, ![k].hasCustomSound = TRUE]
       /\ pads'[k].isPressed = pads[k].isPressed
       /\ pads'[k].isActive = pads[k].isActive

C11_FreshIds ==
    [][(LoadResult(out') = <<TRUE>> /\ findIndexById(pads, out'[1][2]) >= 0)
          => pads'[findIndexById(pads, out'[1][2]) + 1].soundFile
                \notin DOMAIN audioBuffers]_vars

(***************************************************************************)
(* C12, as the claim states it: right after handleGridSizeChange (the only *)
(* step that changes the selected grid size) every pad is idle, has        *)
(* hasCustomSound false and its default sound id, a buffer is registered   *)
(* under that id, and the custom names are empty.                          *)
(***************************************************************************)
C12_Discarded ==
    /\ customSoundNames' = EmptyMap
    /\ \A k \in 1..Len(pads') :
          /\ ~pads'[k].hasCustomSound
          /\ pads'[k].soundFile = DefaultSoundId(pads'[k].id)
          /\ Idle(pads'[k])

C12_AllRegistered ==
    [][selectedGridSize' # selectedGridSize
          => /\ C12_Discarded
             /\ \A k \in 1..Len(pads') : pads'[k].soundFile \in DOMAIN audioBuffers']_vars

(***************************************************************************)
(* C12, amended: right after handleGridSizeChange (the only step that      *)
(* changes the selected grid size) every pad is idle, has                  *)
(* hasCustomSound false and its default sound id, and the custom names are *)
(* empty; the tone of a pad is registered under its id for every pad       *)
(* createBuffer made a buffer for: for all of them when createBuffer does  *)
(* not throw, and otherwise for the pads before the one it threw at, the   *)
(* error slot then being "Failed to load sound files".  A step is one in   *)
(* which createBuffer threw after limit buffers when the bank and the      *)
(* error slot it leaves are those of loadDefaultSounds with that limit.    *)
(***************************************************************************)
C12_GridChangeResets ==
    [][selectedGridSize' # selectedGridSize
          => /\ C12_Discarded
             /\ \A limit \in CreateBufferLimits :
                   (/\ error' = loadDefaultSoundsError(error, pads', limit)
                    /\ audioBuffers' = loadDefaultSounds(audioBuffers, pads', limit))
                      => /\ \A k \in 1..Len(pads') :
                               k <= limit =>
                                  /\ pads'[k].soundFile \in DOMAIN audioBuffers'
                                  /\ audioBuffers'[pads'[k].soundFile]
                                        = ToneBuffer(pads'[k].note)
                         /\ limit < Len(pads')
                               => error' = "Failed to load sound files"]_vars

\* a pad had a custom sound and the grid was then changed: the pad is back
\* to its default tone, which is registered, and no name is left
C12_Witness ==
    /\ Mounted
    /\ selectedGridSize = "5x5"
    /\ \E id \in DOMAIN audioBuffers : id[1] = "custom-sound"
    /\ customSoundNames = EmptyMap
    /\ \A k \in PadIndices :
          /\ ~pads[k].hasCustomSound
          /\ pads[k].soundFile \in DOMAIN audioBuffers
          /\ audioBuffers[pads[k].soundFile] = ToneBuffer(pads[k].note)

(***************************************************************************)
(* C13: a file whose MIME type does not start with audio/ is rejected      *)
(* before any decode is started: the error slot holds the message, no      *)
(* loadCustomSound is in flight for it, and the pads, the audio bank, the  *)
(* custom names and the modal are as they were, the modal open.            *)
(***************************************************************************)
C13_NonAudioRejected ==
    [][\A file \in Files :
          (HandleFileInputChange(file) /\ file.type[1] # "audio")
              => /\ error' = "Please select an audio file (WAV, MP3, etc.)"
                 /\ decodes' = decodes
                 /\ pads' = pads
                 /\ audioBuffers' = audioBuffers
                 /\ customSoundNames' = customSoundNames
                 /\ showSoundAssignModal' = showSoundAssignModal
                 /\ selectedPadForSound' = selectedPadForSound
                 /\ showSoundAssignModal]_vars

\* notes.txt was chosen: the message is shown, the modal is open and
\* nothing is being decoded
C13_Witness ==
    /\ error = "Please select an audio file (WAV, MP3, etc.)"
    /\ showSoundAssignModal
    /\ decodes = <<>>
    /\ \A k \in PadIndices : ~pads[k].hasCustomSound

(***************************************************************************)
(* C14: at most one input port has handleMIDIMessage as its onmidimessage, *)
(* and a port that has it is the selected device.                          *)
(***************************************************************************)
C14_OneHandler ==
    /\ Cardinality(onmidimessage) <= 1
    /\ \A port \in onmidimessage : port = selectedInput

(***************************************************************************)
(* C15: once the component is destroyed the audio context is closed, the   *)
(* document's mouseup and touchend listeners are removed and no input port *)
(* has handleMIDIMessage as its onmidimessage.                             *)
(***************************************************************************)
C15_TeardownReleases ==
    phase = "destroyed" =>
        /\ audioContext = "closed"
        /\ ~globalListeners
        /\ onmidimessage = {}

(***************************************************************************)
(* C16: when the platform has no requestMIDIAccess or the request was      *)
(* rejected, the error slot holds a message, no device is listed or        *)
(* selected and no port has the handler, so no device can be selected and  *)
(* no MIDI message arrives; a mousedown or touchstart on a pad still calls *)
(* triggerPad for its note, requests playback of its sound and makes it    *)
(* held, and a global mouseup or touchend still leaves no pad pressed and  *)
(* schedules a decay timer for each pad that was.                          *)
(***************************************************************************)
MidiUnavailable == Built /\ midiAccess = null /\ midiRequest # "pending"

C16_NoMidi ==
    MidiUnavailable =>
        /\ error # null
        /\ midiInputs = {}
        /\ selectedInput = ""
        /\ onmidimessage = {}

C16_PointerStep ==
    MidiUnavailable =>
        /\ \A id \in ClickedPadIds :
              (PadMouseDown(id) \/ (id \in PlayedPadIds /\ PadTouchStart(id)))
                  => /\ out'[1] = <<"triggerPad", pads[id + 1].note>>
                     /\ out'[2] = <<"playSound", pads[id + 1].soundFile,
                                    pads[id + 1].soundFile \in DOMAIN audioBuffers>>
                     /\ Held(pads'[id + 1])
                     /\ \A k \in PadIndices \ {id + 1} : pads'[k] = pads[k]
        /\ (HandleGlobalMouseUp \/ HandleGlobalTouchEnd
                \/ \E id \in PlayedPadIds : PadTouchEnd(id))
              => /\ \A k \in PadIndices : ~pads'[k].isPressed
                 /\ Len(timers') = Len(timers)
                        + Cardinality({k \in PadIndices : pads[k].isPressed})
        /\ selectedInput' = ""
        /\ onmidimessage' = {}
        /\ \A i \in 1..Len(out') : out'[i][1] \in {"triggerPad", "playSound"}
              => \/ \E id \in ClickedPadIds : PadMouseDown(id)
                 \/ \E id \in PlayedPadIds : PadTouchStart(id)

C16_MidiUnavailable ==
    /\ []C16_NoMidi
    /\ [][C16_PointerStep]_vars

\* the request was rejected, and a pad pressed with the mouse plays and is held
C16_Witness ==
    /\ Mounted
    /\ midiRequest = "settled"
    /\ midiAccess = null
    /\ error = "Failed to access MIDI devices. Please check your browser permissions."
    /\ out = << <<"triggerPad", 37>>, <<"playSound", DefaultSoundId(1), TRUE>> >>
    /\ Held(pads[2])

(***************************************************************************)
(* C17: once the pads are built, every pad's color is what getPadColor     *)
(* gives for that pad's note, row and col under the selected scheme.       *)
(***************************************************************************)
C17_ColorFollowsScheme ==
    Built =>
        /\ selectedColorScheme \in COLOR_SCHEMES
        /\ \A k \in PadIndices :
              pads[k].color
                 = getPadColor([note |-> pads[k].note, row |-> pads[k].row,
                                col |-> pads[k].col], selectedColorScheme)

\* the scheme was changed and a custom sound was then loaded for the pad at
\* the bottom left of the 4x4 grid, row 3 and col 0: an odd checkerboard cell
C17_Witness ==
    /\ Mounted
    /\ selectedColorScheme = "checkerboard"
    /\ selectedGridSize = "4x4"
    /\ pads[1].hasCustomSound
    /\ pads[1].color = <<"hex", "#616161">>
    /\ pads[2].color = <<"hex", "#212121">>

(***************************************************************************)
(* C18: under the music-theory scheme every pad of every grid is #FF5252   *)
(* when its note mod 12 is 0, #448AFF when it is 5, #69F0AE when it is 7   *)
(* and #9E9E9E otherwise, whatever its row and column.                     *)
(***************************************************************************)
C18_MusicTheoryColors ==
    (Built /\ selectedColorScheme = "music-theory") =>
        \A k \in PadIndices :
            pads[k].color =
                CASE pads[k].note % 12 = 0 -> <<"hex", "#FF5252">>
                  [] pads[k].note % 12 = 5 -> <<"hex", "#448AFF">>
                  [] pads[k].note % 12 = 7 -> <<"hex", "#69F0AE">>
                  [] OTHER -> <<"hex", "#9E9E9E">>

\* the 12x2 grid under music-theory: the two C pads, in different rows and
\* both at col 0, are both red, and there are blue, green and grey pads
C18_Witness ==
    /\ Mounted
    /\ selectedColorScheme = "music-theory"
    /\ selectedGridSize = "12x2"
    /\ \E j, k \in PadIndices :
          /\ pads[j].note = 36 /\ pads[j].row = 1 /\ pads[j].color = <<"hex", "#FF5252">>
          /\ pads[k].note = 48 /\ pads[k].row = 0 /\ pads[k].color = <<"hex", "#FF5252">>
    /\ \E k \in PadIndices : pads[k].note = 41 /\ pads[k].color = <<"hex", "#448AFF">>
    /\ \E k \in PadIndices : pads[k].note = 55 /\ pads[k].color = <<"hex", "#69F0AE">>
    /\ \E k \in PadIndices : pads[k].note = 37 /\ pads[k].color = <<"hex", "#9E9E9E">>

(***************************************************************************)
(* C19: no step removes a key of the audio bank: every sound id that is    *)
(* registered is still registered after the step.                          *)
(***************************************************************************)
C19_BankOnlyGrows ==
    [][(DOMAIN audioBuffers) \subseteq (DOMAIN audioBuffers')]_vars

\* the grid went from 4x4 to 3x3 after a custom sound was loaded: the bank
\* still holds the tone of pad 15 and the custom sound, which no pad uses
C19_Witness ==
    /\ Mounted
    /\ selectedGridSize = "3x3"
    /\ DefaultSoundId(15) \in DOMAIN audioBuffers
    /\ \E id \in DOMAIN audioBuffers :
          /\ id[1] = "custom-sound"
          /\ \A k \in PadIndices : pads[k].soundFile # id

(***************************************************************************)
(* C20: a MIDI message whose note is the note of no pad of the grid        *)
(* changes no pad, schedules no decay timer and requests no playback,      *)
(* whether it is a note-on or a note-off.                                  *)
(***************************************************************************)
C20_UnknownNote ==
    [][\A port \in InputPorts, status \in StatusBytes, note \in NoteBytes,
          velocity \in VelocityBytes :
            (MIDIMessage(port, <<status, note, velocity>>)
                /\ \A k \in PadIndices : pads[k].note # note)
              => /\ pads' = pads
                 /\ timers' = timers
                 /\ ~CallsPlay(out')]_vars

\* a note-off for note 100 arrived while no timer was pending: none is now
C20_Witness ==
    /\ onmidimessage # {}
    /\ out = << <<"releasePad", 100>> >>
    /\ timers = <<>>
    /\ \A k \in PadIndices : Idle(pads[k])

(***************************************************************************)
(* C21: a decay timer that a release scheduled before a grid-size change   *)
(* and that fires after the rebuild does not fail, the pad index it        *)
(* captured being an index of the rebuilt pads, and it leaves the isActive *)
(* flag of every pad that is held as it is.                                *)
(***************************************************************************)
C21_StaleTimerHarmless ==
    [][(DecayTimerFires /\ staleTimers > 0)
          => /\ Head(timers) < Len(pads)
             /\ out'[1][1] # "TypeError"
             /\ \A k \in PadIndices :
                   Held(pads[k]) => pads'[k].isActive = pads[k].isActive]_vars

(***************************************************************************)
(* C22: when a loadCustomSound call that was started before a grid-size    *)
(* change completes after it, the rebuilt grid is as the change left it:   *)
(* if no pad had a custom sound and the name map was empty before the      *)
(* completion, every pad still has hasCustomSound false and its default    *)
(* sound id, and the name map is still empty, after it.                    *)
(***************************************************************************)
C22_StaleDecodeSettles ==
    \E i \in 1..Len(decodes), stamp \in {now, now + 1} :
        decodes[i].stale /\ LoadCustomSoundSettles(i, stamp)

C22_NoCustomSound ==
    /\ customSoundNames = EmptyMap
    /\ \A k \in PadIndices :
          /\ ~pads[k].hasCustomSound
          /\ pads[k].soundFile = DefaultSoundId(pads[k].id)

C22_StaleDecodeHarmless ==
    [][(C22_NoCustomSound /\ C22_StaleDecodeSettles) => C22_NoCustomSound']_vars

(***************************************************************************)
(* C23: a long-press timer fires, and opens the sound-assignment modal,    *)
(* only for a pad whose touch has not ended: a touch that ends before its  *)
(* 800 ms elapse leaves no timer that can fire, also when the touches on   *)
(* several pads overlap.                                                   *)
(***************************************************************************)
C23_LongPressOnly ==
    [][LongPressTimerFires => Head(longPress).pad \in touches]_vars

(***************************************************************************)
(* C24: one press, a mousedown on a pad, a touchstart on a pad or a MIDI   *)
(* note-on with velocity above 0, calls triggerPad exactly once, and       *)
(* requests playback exactly once when a pad has the note, and never       *)
(* without one.                                                            *)
(***************************************************************************)
C24_Press(note) ==
    \/ \E id \in ClickedPadIds :
          id < Len(pads) /\ pads[id + 1].note = note /\ PadMouseDown(id)
    \/ \E id \in PlayedPadIds :
          id < Len(pads) /\ pads[id + 1].note = note /\ PadTouchStart(id)
    \/ \E port \in InputPorts, status \in StatusBytes, velocity \in VelocityBytes :
          /\ MaskHighNibble(status) = 144
          /\ velocity > 0
          /\ MIDIMessage(port, <<status, note, velocity>>)

C24_Calls(o, name) == Cardinality({i \in 1..Len(o) : o[i][1] = name})

C24_OnePressOnePlay ==
    [][\A note \in NoteBytes \cup {startNote + id : id \in ClickedPadIds} :
          C24_Press(note)
              => /\ C24_Calls(out', "triggerPad") = 1
                 /\ C24_Calls(out', "playSound")
                       = (IF findIndexByNote(pads, note) >= 0 THEN 1 ELSE 0)]_vars
====
